---- MODULE Spec2Model ----
(***************************************************************************)
(* A model of taupy's coherence engine (taupy/basic/core.py,               *)
(* taupy/basic/utilities.py) and of the simulation state machine           *)
(* (taupy/simulation/simulation.py).                                       *)
(*                                                                         *)
(* Sentences are sympy Symbols p0, p1, ...; they are numbered 1..NumAtoms  *)
(* in the order of their sort_key.  A literal is a Symbol or its Not.  An  *)
(* Argument is Implies(And(premises), conclusion); a Debate is the And of  *)
(* its Arguments (sympy keeps the arguments of And as a set).              *)
(***************************************************************************)
EXTENDS Integers, Sequences, FiniteSets, TLC

NumAtoms == 2
MaxSize == 4
argumentlength == 2

Sentences == 1..NumAtoms

Literals == [s : Sentences, v : BOOLEAN]

\* Not(x) on a literal.
Not(l) == [s |-> l.s, v |-> ~l.v]

\* The conjunctions And(*premises) that stay conjunctions of literals: sympy
\* evaluates And(x, Not(x)) to false, and fetch_premises never returns a
\* sentence together with its negation.
Conjunctions ==
    {P \in SUBSET Literals :
        /\ Cardinality(P) >= 1
        /\ Cardinality(P) <= argumentlength
        /\ \A l \in P : Not(l) \notin P}

\* class Argument(Implies, Base): pass.  Nothing is checked at construction:
\* whatever is handed in as premise becomes args[0] of the implication.
Argument(premise, conclusion) ==
    [premise |-> premise, conclusion |-> conclusion]

\* The premise forms handed to Argument: a conjunction And(...), or a Python
\* tuple of two formulas.
AndPremise(P) == [shape |-> "And", args |-> P]
TuplePremise(x, y) == [shape |-> "tuple", args |-> <<x, y>>]

\* Arguments a Debate is built from.  Implies(x, x) evaluates to true in
\* sympy and is no Argument, so a premise equal to the conclusion is left out.
Arguments ==
    {Argument(AndPremise(P), c) : P \in Conjunctions, c \in Literals}
        \ {Argument(AndPremise({c}), c) : c \in Literals}

\* The size of a Debate: its literal occurrences, premises and conclusions.
RECURSIVE SizeOf(_)
SizeOf(D) ==
    IF D = {} THEN 0
    ELSE LET a == CHOOSE x \in D : TRUE
         IN  Cardinality(a.premise.args) + 1 + SizeOf(D \ {a})

\* Debate() without Arguments: And.__new__ returns sympy's constant true, an
\* Atom that is no instance of Base.  It is written here as the sentence 0.
true == 0

\* formula.atoms(): the Symbols occurring in the formula; the only atom of
\* the constant true is true itself.
atoms(D) ==
    IF D = {} THEN {true}
    ELSE UNION {{l.s : l \in a.premise.args} \cup {a.conclusion.s} : a \in D}

\* The outcome of a call: the value returned, or the exception raised.
Return(v) == [raised |-> "none", value |-> v]
Raise(e) == [raised |-> e]

\* Truth of a literal, an Argument and a Debate under an assignment m.
LitTrue(l, m) == m[l.s] = l.v
ArgTrue(a, m) == (\A l \in a.premise.args : LitTrue(l, m)) => LitTrue(a.conclusion, m)
Satisfies(m, D) == \A a \in D : ArgTrue(a, m)

(***************************************************************************)
(* Names.  The BDD works on variable names: utilities.py declares          *)
(* str(atom) for every atom and converts each model back with symbols(k).  *)
(***************************************************************************)
Names == [s \in Sentences \cup {true} |-> IF s = true THEN "True" ELSE "p" \o ToString(s - 1)]
str(s) == Names[s]
SymbolOfName == [k \in {Names[s] : s \in DOMAIN Names} |-> CHOOSE s \in DOMAIN Names : Names[s] = k]
symbols(k) == SymbolOfName[k]

\* iter_to_list_of_strings(formula.atoms())
iter_to_list_of_strings(S) == {str(s) : s \in S}

(***************************************************************************)
(* to_cnf.  Implies(And(p1..pk), c) becomes the clause c | ~p1 | ... | ~pk *)
(* and the Debate the conjunction of its clauses.  sympy evaluates a       *)
(* clause holding x and ~x to true, and And drops true.  The expression    *)
(* string names every literal by str(symbol).                              *)
(***************************************************************************)
\* Clause with the premises left unnegated.
Clause_PremisesKept(a) == a.premise.args \cup {a.conclusion}

Clause(a) == {Not(l) : l \in a.premise.args} \cup {a.conclusion}
to_cnf(D) == {Clause(a) : a \in D} \ {C \in {Clause(a) : a \in D} : \E l \in C : Not(l) \in C}
StrOfCnf(cnf) == {{[var |-> str(l.s), neg |-> ~l.v] : l \in C} : C \in cnf}

(***************************************************************************)
(* dd.BDD.  A node of a diagram over the declared variables is the         *)
(* Boolean function it denotes (BDDs are canonical), kept as the set of    *)
(* assignments to the declared variables that it maps to true.             *)
(***************************************************************************)
\* diagram.add_expr(expr) after diagram.declare(*variables)
add_expr(variables, expr) ==
    {m \in [variables -> BOOLEAN] :
        \A C \in expr : \E t \in C : m[t.var] = ~t.neg}

Flip(m, x) == [m EXCEPT ![x] = ~m[x]]

\* diagram.support(u): the variables the function depends on.
support(variables, u) ==
    {x \in variables : \E m \in [variables -> BOOLEAN] : (m \in u) # (Flip(m, x) \in u)}

Restrict(m, V) == [x \in V |-> m[x]]

RECURSIVE Pow2(_)
Pow2(n) == IF n <= 0 THEN 1 ELSE 2 * Pow2(n - 1)

\* count without nvars: the assignments to the support alone.
count_OverSupport(variables, u, nvars) ==
    LET sup == support(variables, u)
    IN  Cardinality({Restrict(m, sup) : m \in u})

\* diagram.count(u, nvars): the number of assignments to nvars variables
\* that satisfy u, i.e. the assignments to the support times the free rest.
count(variables, u, nvars) ==
    LET sup == support(variables, u)
    IN  Cardinality({Restrict(m, sup) : m \in u}) * Pow2(nvars - Cardinality(sup))

\* Bit k (0 the lowest) of the number i.
Bit(i, k) == (i \div Pow2(k)) % 2

\* Every assignment to the variables V, listed in the order of the bit
\* vectors: the variable with the greatest index[x] is the lowest bit and
\* False comes before True.
AllAssignments(V, index) ==
    LET n == Cardinality(V)
        place(x) == Cardinality({y \in V : index[y] > index[x]})
    IN  [i \in 1..Pow2(n) |-> [x \in V |-> Bit(i - 1, place(x)) = 1]]

\* The assignments of S, all over the variables V, as a list.  (The order in
\* which pick_iter yields them is unspecified; this one follows the
\* sentence order.)
Enumerate(S, V) ==
    SelectSeq(AllAssignments(V, [x \in V |-> symbols(x)]), LAMBDA m : m \in S)

\* pick_iter without care_vars: the assignments to the support alone.
pick_iter_OverSupport(variables, u, care_vars) ==
    LET V == support(variables, u)
    IN  Enumerate({Restrict(m, V) : m \in u}, V)

\* diagram.pick_iter(u, care_vars): every assignment to the support and the
\* care variables that satisfies u, each once.
pick_iter(variables, u, care_vars) ==
    LET V == support(variables, u) \cup care_vars
    IN  Enumerate({Restrict(m, V) : m \in u}, V)

(***************************************************************************)
(* utilities.py                                                            *)
(***************************************************************************)
satisfiability_count(formula) ==
    LET variables == iter_to_list_of_strings(atoms(formula))
        expression == add_expr(variables, StrOfCnf(to_cnf(formula)))
    IN  count(variables, expression, Cardinality(atoms(formula)))

\* {symbols(k): v for (k, v) in m.items()}
ModelToDict(m) == [s \in {symbols(k) : k \in DOMAIN m} |-> m[str(s)]]

\* satisfiability(formula, all_models=True): the list of models.
satisfiability_all(formula) ==
    LET variables == iter_to_list_of_strings(atoms(formula))
        expression == add_expr(variables, StrOfCnf(to_cnf(formula)))
        picked == pick_iter(variables, expression, {str(i) : i \in atoms(formula)})
    IN  [k \in 1..Len(picked) |-> ModelToDict(picked[k])]

\* satisfiability that takes a formula for unsatisfiable when its diagram
\* depends on no variable.
satisfiability_NeedsSupport(formula) ==
    LET variables == iter_to_list_of_strings(atoms(formula))
        expression == add_expr(variables, StrOfCnf(to_cnf(formula)))
    IN  support(variables, expression) # {}

\* satisfiability(formula): next(pick_iter(expression)) succeeds or raises
\* StopIteration, which is caught.
satisfiability(formula) ==
    LET variables == iter_to_list_of_strings(atoms(formula))
        expression == add_expr(variables, StrOfCnf(to_cnf(formula)))
    IN  Len(pick_iter(variables, expression, support(variables, expression))) > 0

\* satisfiable_neighbours whose care set is the atoms of the debate alone.
satisfiable_neighbours_DebateAtoms(debate, position) ==
    LET variables == {str(s) : s \in atoms(debate)}
        expression == add_expr(variables, StrOfCnf(to_cnf(debate)))
        picked == pick_iter(variables, expression, variables)
    IN  [k \in 1..Len(picked) |-> ModelToDict(picked[k])]

\* satisfiable_neighbours(debate, position), as the list of what it yields:
\* the variables are the atoms of the debate and the keys of the position,
\* and every model over them is yielded.
satisfiable_neighbours(debate, position) ==
    LET variables == {str(s) : s \in atoms(debate)} \cup {str(s) : s \in DOMAIN position}
        expression == add_expr(variables, StrOfCnf(to_cnf(debate)))
        picked == pick_iter(variables, expression, variables)
    IN  [k \in 1..Len(picked) |-> ModelToDict(picked[k])]

\* A set S of Symbol-keyed dicts, all over the sentences V, as a list in the
\* order of their bit vectors.
EnumerateDicts(S, V) ==
    SelectSeq(AllAssignments(V, [x \in V |-> x]), LAMBDA m : m \in S)

\* sympy.logic.satisfiable(formula, all_models=True), as a list: every
\* model over the atoms of the formula.  When there is none sympy yields the
\* single item False, which is kept apart here as the empty list.
satisfiable(formula) ==
    EnumerateDicts({m \in [atoms(formula) -> BOOLEAN] : Satisfies(m, formula)}, atoms(formula))

\* sorted(keys, key=lambda x: x.sort_key())
RECURSIVE sorted(_)
sorted(S) ==
    IF S = {} THEN << >>
    ELSE LET x == CHOOSE y \in S : \A z \in S : y <= z
         IN  <<x>> \o sorted(S \ {x})

\* iter_to_string(l): the items of l, each through str, joined.
RECURSIVE iter_to_string(_)
iter_to_string(l) ==
    IF Len(l) = 0 THEN "" ELSE ToString(Head(l)) \o iter_to_string(Tail(l))

\* neighbours_of_list(l): l with coordinate i complemented, for every i.
complements == <<1, 0>>
\* neighbours_of_list that sets a coordinate to 1 instead of complementing.
neighbours_of_list_SetOne(l) ==
    [i \in 1..Len(l) |-> [l EXCEPT ![i] = 1]]

neighbours_of_list(l) ==
    [i \in 1..Len(l) |-> [l EXCEPT ![i] = complements[l[i] + 1]]]

InList(x, L) == \E k \in DOMAIN L : L[k] = x

\* The loop without its filter "if x in bits".
GraphOfBits_Unfiltered(bits) ==
    LET neighbourlist(b) ==
            [k \in 1..Len(b) |-> iter_to_string(neighbours_of_list(b)[k])]
        last(key) == CHOOSE j \in DOMAIN bits :
                        /\ iter_to_string(bits[j]) = key
                        /\ \A k \in DOMAIN bits : iter_to_string(bits[k]) = key => k <= j
    IN  [key \in {iter_to_string(bits[j]) : j \in DOMAIN bits} |-> neighbourlist(bits[last(key)])]

\* The loop shared by Base.sccp and graph_from_positions: one dictionary
\* entry per bit vector, a later entry of the same key replacing an earlier.
GraphOfBits(bits) ==
    LET neighbourlist(b) ==
            LET kept == SelectSeq(neighbours_of_list(b), LAMBDA x : InList(x, bits))
            IN  [k \in 1..Len(kept) |-> iter_to_string(kept[k])]
        last(key) == CHOOSE j \in DOMAIN bits :
                        /\ iter_to_string(bits[j]) = key
                        /\ \A k \in DOMAIN bits : iter_to_string(bits[k]) = key => k <= j
    IN  [key \in {iter_to_string(bits[j]) : j \in DOMAIN bits} |-> neighbourlist(bits[last(key)])]

BitsOf(positions, props) ==
    [j \in 1..Len(positions) |->
        [k \in 1..Len(props) |-> IF positions[j][props[k]] = TRUE THEN 1 ELSE 0]]

\* graph_from_positions(positions), positions a non-empty list of dicts.
graph_from_positions(positions) ==
    LET props == sorted(DOMAIN positions[1])
    IN  GraphOfBits(BitsOf(positions, props))

\* Base.sccp().  Without a model _pos is [False] and _pos[0].keys() raises
\* AttributeError.
sccp(self) ==
    LET _pos == satisfiable(self)
    IN  IF Len(_pos) = 0 THEN Raise("AttributeError")
        ELSE Return(GraphOfBits(BitsOf(_pos, sorted(DOMAIN _pos[1]))))

\* Base.density(): (len(atoms) - log2(sigma)) / len(atoms).  log2(0) raises
\* ValueError and a formula without atoms ZeroDivisionError.  The number is
\* kept exactly, as the pair (atoms, sigma) it is computed from.
density(self) ==
    LET _sigma == satisfiability_count(self)
        n == Cardinality(atoms(self))
    IN  IF _sigma = 0 THEN Raise("ValueError")
        ELSE IF n = 0 THEN Raise("ZeroDivisionError")
        ELSE Return([atoms |-> n, sigma |-> _sigma])

RECURSIVE Power(_, _)
Power(b, e) == IF e <= 0 THEN 1 ELSE b * Power(b, e - 1)

\* d >= p/q and d <= p/q for a density d and a fraction 0 <= p/q <= 1:
\* (n - log2(sigma))/n >= p/q  iff  sigma^q <= 2^(n*(q-p)).
DensityGeq(d, p, q) == Power(d.sigma, q) <= Power(2, d.atoms * (q - p))
DensityLeq(d, p, q) == Power(d.sigma, q) >= Power(2, d.atoms * (q - p))

(***************************************************************************)
(* State of the engine.                                                    *)
(*   formula     the Debate the engine's functions are called on           *)
(*   population  the list of positions handed to graph_from_positions      *)
(*   ret         the last call: [op, raised, value], or None               *)
(***************************************************************************)
VARIABLES formula, population, ret

engineVars == <<formula, population, ret>>

(***************************************************************************)
(* State of a Simulation (simulation.py).                                  *)
(*   sim               self, the list of Debate snapshots; a snapshot is   *)
(*                     the set of its Arguments, EmptyDebate() the empty   *)
(*                     set                                                 *)
(*   positions         self.positions, one list of Positions per snapshot  *)
(*   sentencepool      self.sentencepool                                   *)
(*   max_sentencepool  self.max_sentencepool                               *)
(*   directed          self.directed                                       *)
(*   log               self.log                                            *)
(*   has_assertions    whether the attribute self.assertions exists        *)
(*   pc                "idle" before run is called, "running" inside its   *)
(*                     loop, "returned" or "raised" after it               *)
(*   i, max_steps      run's step counter and its max_steps argument       *)
(*   raised            the exception run ended with, or "none"             *)
(***************************************************************************)
VARIABLES sim, positions, sentencepool, max_sentencepool, directed, log,
          has_assertions, pc, i, max_steps, raised, kind,
          default_update_strategy, selected_event, pick_positions,
          argument_introduced, introduce_calls, response_calls

(***************************************************************************)
(* State of a FixedDebateSimulation that the classes above do not have.    *)
(*   uncovered_arguments          self.uncovered_arguments                 *)
(*   argument_selection_strategy  self.argument_selection_strategy         *)
(*   introduction_strategy        the introduction_strategy of each agent  *)
(*   seen_positions, c, new_argument                                       *)
(*                                the locals of the last call of step      *)
(*   introduced                   what the last call of step returned      *)
(***************************************************************************)
VARIABLES uncovered_arguments, argument_selection_strategy,
          introduction_strategy, seen_positions, c, new_argument, introduced

\* The max_agreement argument of SocialInfluenceSimulation.run, in tenths.
VARIABLES max_agreement

(***************************************************************************)
(* A call of fetch_premises(pool, length, exclude).                        *)
(*   fetch_pc       "none", "loop" inside while True, or "returned"        *)
(*   fetch_pool, fetch_n, fetch_exclude                                    *)
(*                  pool as a tuple, n and exclude                         *)
(*   fetch_j, fetch_k                                                      *)
(*                  the locals j and k                                     *)
(*   fetch_i        the local i, the combination drawn last                *)
(***************************************************************************)
VARIABLES fetch_pc, fetch_pool, fetch_n, fetch_exclude, fetch_j, fetch_k,
          fetch_i

fetchVars == <<fetch_pc, fetch_pool, fetch_n, fetch_exclude, fetch_j, fetch_k,
               fetch_i>>

fixedVars == <<uncovered_arguments, argument_selection_strategy,
               introduction_strategy, seen_positions, c, new_argument,
               introduced>>

\* What the last iteration of run's loop did: the event sampled, the pair
\* sampled last, the outcome, and the calls of introduce and of response.
eventVars == <<selected_event, pick_positions, argument_introduced,
               introduce_calls, response_calls>>

simVars == <<sim, positions, sentencepool, max_sentencepool, directed, log,
             has_assertions, pc, i, max_steps, raised, kind,
             default_update_strategy, selected_event, pick_positions,
             argument_introduced, introduce_calls, response_calls,
             uncovered_arguments, argument_selection_strategy,
             introduction_strategy, seen_positions, c, new_argument,
             introduced, max_agreement>>

vars == <<formula, population, ret, sim, positions, sentencepool,
          max_sentencepool, directed, log, has_assertions, pc, i, max_steps,
          raised, kind, default_update_strategy, selected_event,
          pick_positions, argument_introduced, introduce_calls,
          response_calls, uncovered_arguments, argument_selection_strategy,
          introduction_strategy, seen_positions, c, new_argument, introduced,
          max_agreement, fetch_pc, fetch_pool, fetch_n, fetch_exclude, fetch_j,
          fetch_k, fetch_i>>

None == [op |-> "None"]

Call(op, outcome) ==
    IF outcome.raised = "none"
    THEN [op |-> op, raised |-> "none", value |-> outcome.value]
    ELSE [op |-> op, raised |-> outcome.raised]

\* The lists of at most MaxPositions total positions over the sentences; a
\* population may hold the same position more than once.
MaxPositions == 2
TotalPositions == [Sentences -> BOOLEAN]
Populations == UNION {[1..n -> TotalPositions] : n \in 1..MaxPositions}

\* The premises handed to the Argument constructor: a conjunction, or a pair
\* of conjunctions written as a Python tuple.
PremiseInputs ==
    {AndPremise(P) : P \in Conjunctions}
        \cup {TuplePremise(AndPremise(P), AndPremise(Q)) : P, Q \in Conjunctions}

\* No Simulation has been constructed.
NoSimulation ==
    /\ sim = << >>
    /\ positions = << >>
    /\ sentencepool = << >>
    /\ max_sentencepool = << >>
    /\ directed = FALSE
    /\ log = << >>
    /\ has_assertions = FALSE
    /\ pc = "none"
    /\ i = 0
    /\ kind = "none"
    /\ default_update_strategy = "none"
    /\ selected_event = "none"
    /\ pick_positions = << >>
    /\ argument_introduced = FALSE
    /\ introduce_calls = 0
    /\ response_calls = 0
    /\ max_steps = 0
    /\ max_agreement = 0
    /\ fetch_pc = "none"
    /\ fetch_pool = << >>
    /\ fetch_n = 0
    /\ fetch_exclude = {}
    /\ fetch_j = 0
    /\ fetch_k = 0
    /\ fetch_i = << >>
    /\ raised = "none"
    /\ uncovered_arguments = << >>
    /\ argument_selection_strategy = "none"
    /\ introduction_strategy = << >>
    /\ seen_positions = << >>
    /\ c = << >>
    /\ new_argument = [kind |-> "False"]
    /\ introduced = "none"

\* The input is a Debate, built up from no Arguments, or a population.
InitEngine ==
    /\ formula = {}
    /\ population \in Populations \cup {<< >>}
    /\ ret = None
    /\ NoSimulation

\* Argument(premise, conclusion) is called on its own, before any Debate is
\* built; the call's value is the object it returns.
ConstructArgument(premise, conclusion) ==
    /\ population = << >>
    /\ formula = {}
    /\ ret = None
    /\ ret' = Call("Argument", Return(Argument(premise, conclusion)))
    /\ UNCHANGED <<formula, population>>
    /\ UNCHANGED simVars
    /\ UNCHANGED fetchVars

\* Debate(*debate.args, argument): the Debate grows by one Argument.
DebateAppend(a) ==
    /\ population = << >>
    /\ ret = None
    /\ a \notin formula
    /\ SizeOf(formula \cup {a}) <= MaxSize
    /\ formula' = formula \cup {a}
    /\ UNCHANGED <<population, ret>>
    /\ UNCHANGED simVars
    /\ UNCHANGED fetchVars

CallSatisfiabilityCount ==
    /\ population = << >>
    /\ ret' = Call("satisfiability_count", Return(satisfiability_count(formula)))
    /\ UNCHANGED <<formula, population>>
    /\ UNCHANGED simVars
    /\ UNCHANGED fetchVars

CallSatisfiabilityAll ==
    /\ population = << >>
    /\ ret' = Call("satisfiability_all", Return(satisfiability_all(formula)))
    /\ UNCHANGED <<formula, population>>
    /\ UNCHANGED simVars
    /\ UNCHANGED fetchVars

CallSatisfiability ==
    /\ population = << >>
    /\ ret' = Call("satisfiability", Return(satisfiability(formula)))
    /\ UNCHANGED <<formula, population>>
    /\ UNCHANGED simVars
    /\ UNCHANGED fetchVars

\* self.method() on what Debate(*args) returned: the constant true has none
\* of the methods of Base.
Method(self, outcome) ==
    IF self = {} THEN Raise("AttributeError") ELSE outcome

CallSccp ==
    /\ population = << >>
    /\ ret' = Call("sccp", Method(formula, sccp(formula)))
    /\ UNCHANGED <<formula, population>>
    /\ UNCHANGED simVars
    /\ UNCHANGED fetchVars

CallDensity ==
    /\ population = << >>
    /\ ret' = Call("density", Method(formula, density(formula)))
    /\ UNCHANGED <<formula, population>>
    /\ UNCHANGED simVars
    /\ UNCHANGED fetchVars

CallGraphFromPositions ==
    /\ population # << >>
    /\ ret' = Call("graph_from_positions", Return(graph_from_positions(population)))
    /\ UNCHANGED <<formula, population>>
    /\ UNCHANGED simVars
    /\ UNCHANGED fetchVars

\* The (partial) positions handed to satisfiable_neighbours.
PartialPositions == UNION {[S -> BOOLEAN] : S \in SUBSET Sentences}

\* satisfiable_neighbours(formula, position); the call is kept with its
\* argument.
CallSatisfiableNeighbours(position) ==
    /\ population = << >>
    /\ ret' = [op |-> "satisfiable_neighbours", raised |-> "none",
               value |-> satisfiable_neighbours(formula, position),
               position |-> position]
    /\ UNCHANGED <<formula, population>>
    /\ UNCHANGED simVars
    /\ UNCHANGED fetchVars

NextEngine ==
    \/ \E premise \in PremiseInputs, conclusion \in Literals :
            ConstructArgument(premise, conclusion)
    \/ \E a \in Arguments : DebateAppend(a)
    \/ CallSatisfiabilityCount
    \/ CallSatisfiabilityAll
    \/ CallSatisfiability
    \/ CallSccp
    \/ CallDensity
    \/ CallGraphFromPositions
    \/ \E position \in PartialPositions : CallSatisfiableNeighbours(position)

SpecEngine == InitEngine /\ [][NextEngine]_vars

(***************************************************************************)
(* Simulation (simulation.py).                                             *)
(***************************************************************************)
NumAgents == 2
MaxSteps == 2

\* run's defaults: max_density=0.8 (the fraction 4/5) and min_sccp=1.
max_density_p == 4
max_density_q == 5
min_sccp == 1

Last(s) == s[Len(s)]
Range(s) == {s[k] : k \in DOMAIN s}

\* EmptyDebate(), the snapshot a Simulation without parent_debate starts
\* with: no Argument constrains the sentences of the pool, so its density is
\* 0 and every assignment to the pool is a model.
EmptyDebate == {}
EmptyDebateCount(pool) == Pow2(Len(pool))
EmptyDebateDensity(pool) == Return([atoms |-> Len(pool), sigma |-> Pow2(Len(pool))])

\* self[-1].density() and satisfiability_count(self[-1]) on a snapshot.
SnapshotDensity(D, pool) ==
    IF D = EmptyDebate THEN EmptyDebateDensity(pool) ELSE density(D)
SnapshotCount(D, pool) ==
    IF D = EmptyDebate THEN EmptyDebateCount(pool) ELSE satisfiability_count(D)

\* The Arguments over the sentences of the pool.
ArgumentsOver(pool) == {a \in Arguments : atoms({a}) \subseteq Range(pool)}

\* The debates handed in as parent_debate: the Debates over the first
\* sentence of the pool, the contradictory one among them.
ParentDebates(pool) ==
    {D \in SUBSET ArgumentsOver(SubSeq(pool, 1, 1)) : D # {} /\ SizeOf(D) <= MaxSize}

\* Before any simulation object is constructed.
Init ==
    /\ formula = {}
    /\ population = << >>
    /\ ret = None
    /\ NoSimulation

\* The names given as debate_growth and as default_update_strategy, one of
\* each being a name the package does not know.
GrowthInputs == {"random", "tree", "chain"}
UpdateStrategies == {"closest_coherent", "closest_closed_partial_coherent"}
StrategyInputs == {"closest_coherent", "nearest"}

\* symbols("p:k"): the pool p0..p(k-1).
Pool(k) == [j \in 1..k |-> j]

\* Simulation.__init__.  The pool is p0..p(k-1); max_sentencepool is
\* p0..p(m-1) (None keeps the pool itself, the case m = k); the positions are
\* filled up by init_positions to the length of the pool; snapshot 0 is
\* EmptyDebate() or the parent_debate.  Only debate_growth is tested, at
\* lines 104-107, and the exception leaves no object behind;
\* default_update_strategy is stored as given.
SimulationInit(directed_, debate_growth, k, m, parent_debate, P, strategy) ==
    /\ pc = "none"
    /\ IF debate_growth \notin {"random", "tree"}
       THEN /\ pc' = "rejected"
            /\ raised' = "NotImplementedError"
            /\ UNCHANGED <<sim, positions, sentencepool, max_sentencepool,
                           directed, log, has_assertions, i, max_steps, max_agreement, fetchVars, kind,
                           default_update_strategy>>
       ELSE /\ kind' = "Simulation"
            /\ sentencepool' = Pool(k)
            /\ max_sentencepool' = Pool(m)
            /\ positions' = <<P>>
            /\ directed' = directed_
            /\ default_update_strategy' = strategy
            /\ log' = << >>
            /\ has_assertions' = TRUE
            /\ sim' = <<parent_debate>>
            /\ pc' = "idle"
            /\ UNCHANGED <<i, max_steps, max_agreement, fetchVars, raised>>
    /\ UNCHANGED eventVars
    /\ UNCHANGED engineVars
    /\ UNCHANGED fixedVars

\* run(max_steps=ms) is called: i = 0 and the loop is entered.
Run(ms) ==
    /\ kind = "Simulation"
    /\ pc = "idle"
    /\ pc' = "running"
    /\ i' = 0
    /\ max_steps' = ms
    /\ UNCHANGED <<max_agreement, fetchVars>>
    /\ UNCHANGED <<sim, positions, sentencepool, max_sentencepool, directed,
                   log, has_assertions, raised, kind, default_update_strategy>>
    /\ UNCHANGED eventVars
    /\ UNCHANGED engineVars
    /\ UNCHANGED fixedVars

\* Lines 269-274: the summary line, with the steps taken, the density of the
\* latest snapshot and the extension of its SCCP.
SummaryEntry_OneMore(steps, d, sigma) ==
    [kind |-> "summary", steps |-> steps + 1, density |-> d, sccp |-> sigma]

SummaryEntry(steps, d, sigma) ==
    [kind |-> "summary", steps |-> steps, density |-> d, sccp |-> sigma]

\* Lines 276-279: run returns the last log entry if quiet, else self.
Self == [kind |-> "self"]
ReturnValue(quiet, entries) == IF quiet THEN Last(entries) ELSE Self

\* Lines 269-279: the summary is appended and run returns; density() is
\* evaluated for the summary and may raise.  quiet is an argument of run that
\* is read at line 276 only; the value run returns is kept for either quiet.
Summary(sim2, positions2, pool2, log2, i2, assertions2) ==
    LET d == SnapshotDensity(Last(sim2), pool2)
    IN  /\ sim' = sim2
        /\ positions' = positions2
        /\ sentencepool' = pool2
        /\ i' = i2
        /\ has_assertions' = assertions2
        /\ IF d.raised # "none"
           THEN /\ pc' = "raised"
                /\ raised' = d.raised
                /\ log' = log2
                /\ ret' = [op |-> "run", raised |-> d.raised]
           ELSE /\ pc' = "returned"
                /\ raised' = "none"
                /\ log' = Append(log2, SummaryEntry(i2, d.value,
                                        SnapshotCount(Last(sim2), pool2)))
                /\ ret' = [op |-> "run", raised |-> "none",
                           value |-> [quiet \in BOOLEAN |-> ReturnValue(quiet, log')]]

\* Line 264, the condition under which the loop is left.
Threshold_StepsOnly(d, steps, sigma) == steps >= max_steps

Threshold_NoSteps(d, steps, sigma) ==
    \/ DensityGeq(d, max_density_p, max_density_q)
    \/ sigma <= min_sccp

Threshold(d, steps, sigma) ==
    \/ DensityGeq(d, max_density_p, max_density_q)
    \/ steps >= max_steps
    \/ sigma <= min_sccp

\* Lines 263-267: the step is counted and the thresholds are tested, the
\* density first.
EndOfStep(sim2, positions2, pool2, log2) ==
    LET i2 == i + 1
        d == SnapshotDensity(Last(sim2), pool2)
    IN  IF d.raised # "none"
        THEN /\ pc' = "raised"
             /\ raised' = d.raised
             /\ ret' = [op |-> "run", raised |-> d.raised]
             /\ sim' = sim2
             /\ positions' = positions2
             /\ sentencepool' = pool2
             /\ log' = log2
             /\ i' = i2
             /\ UNCHANGED has_assertions
        ELSE IF Threshold(d.value, i2, SnapshotCount(Last(sim2), pool2))
        THEN Summary(sim2, positions2, pool2, log2, i2, FALSE)
        ELSE /\ pc' = "running"
             /\ sim' = sim2
             /\ positions' = positions2
             /\ sentencepool' = pool2
             /\ log' = log2
             /\ i' = i2
             /\ UNCHANGED <<has_assertions, raised, ret>>

\* introduce(self, ...): on success the snapshot Debate(*self[-1].args, a) is
\* appended for an Argument a over the pool that is not yet in the debate
\* (and keeps the debate within MaxSize).
Introducible ==
    {a \in ArgumentsOver(sentencepool) \ Last(sim) : SizeOf(Last(sim) \cup {a}) <= MaxSize}
Introduced(a) == Append(sim, Last(sim) \cup {a})

\* response(..., method="closest_coherent"): every position moves to a model
\* of the debate at the least Hamming distance on the shared sentences; with
\* no model the positions stay as they are.  The new list is appended.
Distance(p, m) == Cardinality({s \in DOMAIN p \cap DOMAIN m : p[s] # m[s]})
Closest(models, p) ==
    {m \in models : \A other \in models : Distance(p, m) <= Distance(p, other)}
Responses(debate, P) ==
    UNION {IF models = {} THEN {P}
           ELSE {Q \in [DOMAIN P -> models] :
                    \A k \in DOMAIN P : Q[k] \in Closest(models, P[k])} :
           models \in {Range(satisfiability_all(debate))}}

\* Lines 152-157 and 204-209: the calls of introduce an introduction event
\* makes at most; the directed loop runs while j < len(self.positions[-1])/2.
Attempts_WholePopulation(directed_, n) ==
    IF directed_ /\ n >= 2 THEN n ELSE 1

Attempts_HalfPopulation(directed_, n) == (n + 1) \div 2

Attempts(directed_, n) ==
    IF directed_ /\ n >= 2 THEN (n + 1) \div 2 ELSE 1

\* Line 158, sample(self.positions[-1], k=2): two different members.
Pairs(n) == {pair \in (1..n) \X (1..n) : pair[1] # pair[2]}

\* Lines 196-203 and 210-215: response is called if argument_introduced.
ResponseCalls_Always(outcome) == 1

ResponseCalls(outcome) == IF outcome THEN 1 ELSE 0

\* introduce(...) returning False: the failure is noted in the log ("the log
\* will tell more about what went wrong", lines 218-220), once per call.
FailedAttempts(entries, n) ==
    entries \o [k \in 1..n |-> [kind |-> "introduce_failed"]]

\* Lines 151-203 and 217-221: an introduction event of a directed simulation
\* with at least two positions.  The introduction events are followed for
\* the update strategy closest_coherent; under another strategy the weights
\* of self.events leave new_sentence events only.
IntroductionDirected ==
    /\ pc = "running"
    /\ default_update_strategy = "closest_coherent"
    /\ directed /\ Len(Last(positions)) >= 2
    /\ selected_event' = "introduction"
    /\ \E pair \in Pairs(Len(Last(positions))) : pick_positions' = pair
    /\ LET tries == Attempts(directed, Len(Last(positions)))
       IN  \/ /\ \E j \in 0..(tries - 1) : \E a \in Introducible :
                   \E Q \in Responses(Last(sim) \cup {a}, Last(positions)) :
                       /\ introduce_calls' = j + 1
                       /\ EndOfStep(Introduced(a), Append(positions, Q), sentencepool,
                                 Append(FailedAttempts(log, j),
                                        [kind |-> "introduction_succeeded",
                                         attempts |-> j + 1]))
              /\ argument_introduced' = TRUE
              /\ response_calls' = ResponseCalls(TRUE)
           \/ /\ introduce_calls' = tries
              /\ argument_introduced' = FALSE
              /\ response_calls' = ResponseCalls(FALSE)
              /\ Summary(sim, positions, sentencepool,
                         Append(FailedAttempts(log, tries),
                                [kind |-> "introduction_failed",
                                 attempts |-> tries + 1]),
                         i, has_assertions)
    /\ UNCHANGED <<max_sentencepool, directed, max_steps, max_agreement, fetchVars, kind,
                   default_update_strategy>>
    /\ UNCHANGED <<formula, population>>
    /\ UNCHANGED fixedVars

\* Lines 204-221: an introduction event otherwise; introduce is called
\* without source and target.
IntroductionUndirected ==
    /\ pc = "running"
    /\ default_update_strategy = "closest_coherent"
    /\ ~(directed /\ Len(Last(positions)) >= 2)
    /\ selected_event' = "introduction"
    /\ introduce_calls' = Attempts(directed, Len(Last(positions)))
    /\ UNCHANGED pick_positions
    /\ \/ /\ \E a \in Introducible :
               \E Q \in Responses(Last(sim) \cup {a}, Last(positions)) :
                   EndOfStep(Introduced(a), Append(positions, Q), sentencepool, log)
          /\ argument_introduced' = TRUE
          /\ response_calls' = ResponseCalls(TRUE)
       \/ /\ argument_introduced' = FALSE
          /\ response_calls' = ResponseCalls(FALSE)
          /\ Summary(sim, positions, sentencepool, FailedAttempts(log, 1), i,
                     has_assertions)
    /\ UNCHANGED <<max_sentencepool, directed, max_steps, max_agreement, fetchVars, kind,
                   default_update_strategy>>
    /\ UNCHANGED <<formula, population>>
    /\ UNCHANGED fixedVars

\* A copy that takes the value on every sentence.
WithStance_Everywhere(p, s, value) ==
    [x \in DOMAIN p \cup {s} |-> value]

\* e[selected_sentence] = value on a copy e of p.
WithStance(p, s, value) ==
    [x \in DOMAIN p \cup {s} |-> IF x = s THEN value ELSE p[x]]

\* Lines 256-261: the failure to insert a sentence is noted in the log.
PoolExhaustedLog_Silent(entries) == entries

PoolExhaustedLog(entries) == Append(entries, [kind |-> "pool_exhausted"])

\* Lines 228-229: the sentences that can still be inserted.
SentenceCandidates_WholeMaximum(maximum, pool) == Range(maximum)

SentenceCandidates(maximum, pool) == Range(maximum) \ Range(pool)

\* Line 239, self.append(self[-1]): the debate stage is carried along.
CarryAlong_Skipped(snapshots) == snapshots

CarryAlong(snapshots) == Append(snapshots, Last(snapshots))

\* Lines 243-254: the stances are set on deepcopies e of the positions, so
\* the list that is appended shares no object with the lists of the history.
AppendExpanded_InPlace(history, expanded_positions) ==
    Append([history EXCEPT ![Len(history)] = expanded_positions], expanded_positions)

AppendExpanded(history, expanded_positions) ==
    Append(history, expanded_positions)

\* Lines 223-261: a new_sentence event.
NewSentence ==
    /\ pc = "running"
    /\ selected_event' = "new_sentence"
    /\ response_calls' = 0
    /\ UNCHANGED <<pick_positions, argument_introduced, introduce_calls>>
    /\ LET sentence_candidates == SentenceCandidates(max_sentencepool, sentencepool)
       IN  IF sentence_candidates # {}
           THEN \E selected_sentence \in sentence_candidates :
                \E expanded_positions \in
                        [DOMAIN Last(positions) ->
                            UNION {{p, WithStance(p, selected_sentence, TRUE),
                                    WithStance(p, selected_sentence, FALSE)} :
                                   p \in Range(Last(positions))}] :
                    /\ \A k \in DOMAIN Last(positions) :
                          expanded_positions[k] \in
                              {Last(positions)[k],
                               WithStance(Last(positions)[k], selected_sentence, TRUE),
                               WithStance(Last(positions)[k], selected_sentence, FALSE)}
                    /\ EndOfStep(CarryAlong(sim),
                                 AppendExpanded(positions, expanded_positions),
                                 Append(sentencepool, selected_sentence),
                                 Append(log, [kind |-> "sentence_added",
                                              sentence |-> selected_sentence]))
           ELSE EndOfStep(sim, positions, sentencepool, PoolExhaustedLog(log))
    /\ UNCHANGED <<max_sentencepool, directed, max_steps, max_agreement, fetchVars, kind,
                   default_update_strategy>>
    /\ UNCHANGED <<formula, population>>
    /\ UNCHANGED fixedVars

(***************************************************************************)
(* SocialInfluenceSimulation.  Its debate never changes and is kept as the *)
(* single snapshot of sim; i counts the calls of step.                     *)
(***************************************************************************)
\* generate_hierarchical_argument_map(...): some Debate over the pool.
GeneratedDebates(pool) ==
    {{a} : a \in {x \in ArgumentsOver(pool) : SizeOf({x}) + 2 <= MaxSize}}

\* SocialInfluenceSimulation.__init__ with updating_strategy
\* "closest_coherent": the positions given are list 0 and the response to
\* the debate is list 1.
SocialInfluenceInit(debate, P) ==
    /\ pc = "none"
    /\ kind' = "SocialInfluenceSimulation"
    /\ sentencepool' = Pool(NumAtoms)
    /\ sim' = <<debate>>
    /\ \E Q \in Responses(debate, P) : positions' = <<P, Q>>
    /\ default_update_strategy' = "closest_coherent"
    /\ log' = << >>
    /\ has_assertions' = TRUE
    /\ pc' = "idle"
    /\ UNCHANGED <<max_sentencepool, directed, i, max_steps, max_agreement, fetchVars, raised>>
    /\ UNCHANGED eventVars
    /\ UNCHANGED engineVars
    /\ UNCHANGED fixedVars

\* Lines 595-600: a new Position with the stances of p on every sentence but
\* influence_item, and the stance of the source on influence_item.
Influenced(p, source, influence_item) ==
    LET rest == [x \in DOMAIN p \ {influence_item} |-> p[x]]
    IN  IF influence_item \in DOMAIN source
        THEN WithStance(rest, influence_item, source[influence_item])
        ELSE rest

\* Lines 613-618: response(positions=candidates) appends its list; the
\* candidates that were not influenced are the objects of the last list.
AppendResponse_InPlace(history, Q) ==
    Append([history EXCEPT ![Len(history)] = Q], Q)

AppendResponse(history, Q) == Append(history, Q)

\* SocialInfluenceSimulation.step.  choice raises IndexError on an empty
\* population.  A position at distance 0 from the source, the source itself
\* among them, is always updated (the weight of False is 0).
Influence(last) ==
    \E source_id \in DOMAIN last, influence_item \in Range(sentencepool),
       update \in [DOMAIN last -> BOOLEAN] :
       LET source == last[source_id]
           candidates == [k \in DOMAIN last |->
                IF update[k] THEN Influenced(last[k], source, influence_item)
                ELSE last[k]]
           entries == [k \in DOMAIN last |->
                [kind |-> IF update[k] THEN "influenced" ELSE "not_influenced",
                 position |-> k, source |-> source_id]]
       IN  /\ \A k \in DOMAIN last : last[k] = source => update[k]
           /\ \E Q \in Responses(sim[1], candidates) :
                  positions' = AppendResponse(positions, Q)
           /\ log' = log \o entries

\* A call of step by the caller.
SocialInfluenceStep ==
    /\ kind = "SocialInfluenceSimulation"
    /\ pc = "idle"
    /\ i < MaxSteps
    /\ LET last == Last(positions)
       IN  IF Len(last) = 0
           THEN /\ pc' = "raised"
                /\ raised' = "IndexError"
                /\ UNCHANGED <<positions, log, i>>
           ELSE /\ Influence(last)
                /\ i' = i + 1
                /\ UNCHANGED <<pc, raised>>
    /\ UNCHANGED <<sim, sentencepool, max_sentencepool, directed, has_assertions,
                   max_steps, max_agreement, fetchVars, kind, default_update_strategy>>
    /\ UNCHANGED eventVars
    /\ UNCHANGED engineVars
    /\ UNCHANGED fixedVars

\* normalised_edit_agreement(p1, p2) as the fraction <<numerator,
\* denominator>>: the share of the sentences of either position on which
\* both take the same stance, a sentence only one of them has counting as a
\* difference.
normalised_edit_agreement(p1, p2) ==
    LET either == DOMAIN p1 \cup DOMAIN p2
        same == {s \in DOMAIN p1 \cap DOMAIN p2 : p1[s] = p2[s]}
    IN  IF either = {} THEN <<1, 1>> ELSE <<Cardinality(same), Cardinality(either)>>

\* A common denominator of the agreements of positions over the pool.
RECURSIVE Factorial(_)
Factorial(n) == IF n = 0 THEN 1 ELSE n * Factorial(n - 1)

RECURSIVE SumOver(_, _)
SumOver(pairs, P) ==
    IF pairs = {} THEN 0
    ELSE LET pair == CHOOSE x \in pairs : TRUE
             a == normalised_edit_agreement(P[pair[1]], P[pair[2]])
         IN  (a[1] * (Factorial(NumAtoms) \div a[2])) + SumOver(pairs \ {pair}, P)

\* Lines 630-633: the mean of the upper triangle, k=1, of the matrix of
\* agreements.  The mean of no entries, for fewer than two positions, is nan.
mean_agreement(P) ==
    LET triu == {pair \in (DOMAIN P) \X (DOMAIN P) : pair[1] < pair[2]}
    IN  IF triu = {} THEN [nan |-> TRUE]
        ELSE [nan |-> FALSE, num |-> SumOver(triu, P),
              den |-> Cardinality(triu) * Factorial(NumAtoms)]

\* current_mean_agreement <= max_agreement, max_agreement in tenths; a
\* comparison with nan is False.
AgreementLeq(mean, tenths) ==
    ~mean.nan /\ mean.num * 10 <= tenths * mean.den

\* run(max_steps, max_agreement), lines 620-623: the step counter starts at 0.
SocialInfluenceRun(ms, ma) ==
    /\ kind = "SocialInfluenceSimulation"
    /\ pc = "idle"
    /\ pc' = "running"
    /\ i' = 0
    /\ max_steps' = ms
    /\ max_agreement' = ma
    /\ UNCHANGED fetchVars
    /\ UNCHANGED <<sim, positions, sentencepool, max_sentencepool, directed, log,
                   has_assertions, kind, default_update_strategy, raised>>
    /\ UNCHANGED eventVars
    /\ UNCHANGED engineVars
    /\ UNCHANGED fixedVars

\* The condition of line 635.
KeepsRunning(steps, ms, mean, ma) == steps <= ms /\ AgreementLeq(mean, ma)

\* One round of the loop of run, lines 625-639; the return value of lines
\* 641-643.
SocialInfluenceIteration ==
    /\ kind = "SocialInfluenceSimulation"
    /\ pc = "running"
    /\ LET last == Last(positions)
           current_mean_agreement == mean_agreement(last)
       IN  IF KeepsRunning(i, max_steps, current_mean_agreement, max_agreement)
           THEN /\ Influence(last)
                /\ i' = i + 1
                /\ UNCHANGED <<pc, ret>>
           ELSE /\ pc' = "returned"
                /\ ret' = [op |-> "run", raised |-> "none",
                           value |-> [kind |-> "ended", steps |-> i,
                                      agreement |-> current_mean_agreement]]
                /\ UNCHANGED <<positions, log, i>>
    /\ UNCHANGED <<sim, sentencepool, max_sentencepool, directed, has_assertions,
                   max_steps, max_agreement, fetchVars, kind, default_update_strategy, raised>>
    /\ UNCHANGED eventVars
    /\ UNCHANGED <<formula, population>>
    /\ UNCHANGED fixedVars

(***************************************************************************)
(* FixedDebateSimulation.  Its debate is fixed at construction and is kept *)
(* as the single snapshot of sim; the agents are numbered from 1.          *)
(***************************************************************************)
\* Introduction strategies of taupy.simulation.strategies, one for each
\* value of each of their fields.
Strategy(name, premises, source, target) ==
    [name |-> name, pick_premises_from |-> premises,
     source_accepts_conclusion |-> source, target_accepts_conclusion |-> target]
IntroductionStrategies ==
    {Strategy("random", "None", "NA", "NA"),
     Strategy("attack", "source", "Yes", "No"),
     Strategy("undercut", "target", "Toleration", "No")}

\* arg.get_requirements(), restricted at lines 385-386 to the atoms of the
\* premises and to the atom of the conclusion.
premise_reqs(arg) ==
    [s \in {l.s : l \in arg.premise.args} |->
        (CHOOSE l \in arg.premise.args : l.s = s).v]
conclusion_reqs(arg) ==
    [s \in {arg.conclusion.s} |-> arg.conclusion.v]

\* reqs.items() <= p.items()
Holds(reqs, p) == \A s \in DOMAIN reqs : s \in DOMAIN p /\ p[s] = reqs[s]

\* The maps generate_hierarchical_argument_map returns: the Argument from p0
\* to p1 and up to MaxArguments - 1 more, each from un-negated premises to
\* a conclusion about another sentence.
MaxArguments == 2
MapArguments(pool) ==
    {a \in ArgumentsOver(pool) :
        /\ a.conclusion.s \notin {l.s : l \in a.premise.args}
        /\ \A l \in a.premise.args : l.v}
GeneratedMaps(pool) ==
    {D \in SUBSET MapArguments(pool) :
        /\ Argument(AndPremise({[s |-> 1, v |-> TRUE]}), [s |-> 2, v |-> TRUE]) \in D
        /\ Cardinality(D) <= MaxArguments}

\* The populations of a FixedDebateSimulation: up to MaxAgents agents of
\* different total positions, listed in the order of their bit vectors.
MaxAgents == 3
Bits(p) == [k \in 1..NumAtoms |-> IF p[k] THEN 1 ELSE 0]
RECURSIVE Value(_)
Value(bits) == IF bits = << >> THEN 0 ELSE 2 * Value(SubSeq(bits, 1, Len(bits) - 1)) + bits[Len(bits)]
FixedPopulations ==
    UNION {{P \in [1..n -> TotalPositions] :
               \A j \in 1..(n - 1) : Value(Bits(P[j])) < Value(Bits(P[j + 1]))} :
           n \in 0..MaxAgents}

\* Lines 393-402.
premise_ids(strategy, arg, enum_pos, source) ==
    IF strategy.pick_premises_from = "target"
    THEN {j \in DOMAIN enum_pos : Holds(premise_reqs(arg), enum_pos[j])}
    ELSE IF strategy.pick_premises_from = "source"
    THEN {j \in DOMAIN enum_pos : Holds(premise_reqs(arg), source)}
    ELSE DOMAIN enum_pos

\* Lines 404-414.  Under Toleration the requirement of the conclusion is also
\* compared with its suspension {k: None}, which no requirement is part of.
conclusion_source_ids(strategy, arg, enum_pos, source_id) ==
    IF strategy.source_accepts_conclusion \in {"Yes", "Toleration"}
    THEN {j \in DOMAIN enum_pos : Holds(conclusion_reqs(arg), enum_pos[source_id])}
    ELSE {j \in DOMAIN enum_pos : j # source_id}

\* Lines 416-420.
conclusion_target_ids_WithSource(strategy, arg, enum_pos, source_id) ==
    IF strategy.target_accepts_conclusion = "No"
    THEN {j \in DOMAIN enum_pos : ~Holds(conclusion_reqs(arg), enum_pos[j])}
    ELSE DOMAIN enum_pos

conclusion_target_ids(strategy, arg, enum_pos, source_id) ==
    IF strategy.target_accepts_conclusion = "No"
    THEN {j \in DOMAIN enum_pos :
            ~Holds(conclusion_reqs(arg), enum_pos[j]) /\ j # source_id}
    ELSE {j \in DOMAIN enum_pos : j # source_id}

\* Lines 422-424.
possible_targets(strategy, arg, enum_pos, source_id) ==
    premise_ids(strategy, arg, enum_pos, enum_pos[source_id])
        \cap conclusion_source_ids(strategy, arg, enum_pos, source_id)
        \cap conclusion_target_ids(strategy, arg, enum_pos, source_id)

\* Lines 380-429: the dict c of a source, over the arguments not uncovered.
Counts_WithUncovered(debate, uncovered, enum_pos, strategies_, source_id) ==
    [arg \in debate |->
        Cardinality(possible_targets(strategies_[source_id], arg, enum_pos, source_id))]

Counts(debate, uncovered, enum_pos, strategies_, source_id) ==
    [arg \in debate \ Range(uncovered) |->
        Cardinality(possible_targets(strategies_[source_id], arg, enum_pos, source_id))]

\* Lines 426-427 and 431: argument_available after the loop over arguments.
Available(counts) == \E arg \in DOMAIN counts : counts[arg] > 0

Maximum(counts) ==
    CHOOSE n \in {counts[arg] : arg \in DOMAIN counts} :
        \A arg \in DOMAIN counts : counts[arg] <= n

\* A selection among all arguments of c.
Selectable_All(selection, counts) == DOMAIN counts

\* Lines 432-438: the arguments new_argument is chosen from.
Selectable(selection, counts) ==
    IF selection = "any"
    THEN {arg \in DOMAIN counts : counts[arg] > 0}
    ELSE {arg \in DOMAIN counts : counts[arg] = Maximum(counts)}

\* Every position stays available as source.
available_positions_All(enum_pos, seen) == DOMAIN enum_pos

\* Lines 361-362: the positions not yet seen as source.
available_positions(enum_pos, seen) ==
    {j \in DOMAIN enum_pos : j \notin Range(seen)}

\* Lines 359-450: the sources a step tries, in their order.  Each comes from
\* available_positions; every source but the last has no argument
\* available; the loop ends at a source that has one, or when no position
\* is available any more.  The loop is followed for one round more than
\* there are positions.
Tries(debate, uncovered, enum_pos, strategies_) ==
    {seen \in UNION {[1..m -> DOMAIN enum_pos] : m \in 1..(Len(enum_pos) + 1)} :
        /\ \A k \in 1..Len(seen) :
              seen[k] \in available_positions(enum_pos, SubSeq(seen, 1, k - 1))
        /\ \A k \in 1..(Len(seen) - 1) :
              ~Available(Counts(debate, uncovered, enum_pos, strategies_, seen[k]))
        /\ \/ Available(Counts(debate, uncovered, enum_pos, strategies_, Last(seen)))
           \/ available_positions(enum_pos, seen) = {}}

\* A source without an available argument.
NoArgumentLog_Silent(entries, strategy, source) == entries

\* Lines 447-450: the log entry of a source without an available argument.
NoArgumentLog(entries, strategy, source) ==
    Append(entries, [kind |-> "no_argument_available", strategy |-> strategy.name,
                     position |-> source])

\* The entries of the sources of seen, from the k-th on.
RECURSIVE NoArgumentLogs(_, _, _, _, _)
NoArgumentLogs(entries, seen, k, enum_pos, strategies_) ==
    IF k > Len(seen) THEN entries
    ELSE NoArgumentLogs(NoArgumentLog(entries, strategies_[seen[k]], enum_pos[seen[k]]),
                        seen, k + 1, enum_pos, strategies_)

\* FixedDebateSimulation.__init__: both strategy names are tested, at lines
\* 329-338, and an exception leaves no object behind.  Without
\* initial_arguments nothing is uncovered.
SelectionInputs == {"any", "max", "min"}
FixedDebateInit(debate, P, strategies_, selection, strategy) ==
    /\ pc = "none"
    /\ IF selection \notin {"any", "max"} \/ strategy \notin UpdateStrategies
       THEN /\ pc' = "rejected"
            /\ raised' = "NotImplementedError"
            /\ UNCHANGED <<sim, positions, sentencepool, log, has_assertions, kind,
                           default_update_strategy, uncovered_arguments,
                           argument_selection_strategy, introduction_strategy>>
       ELSE /\ kind' = "FixedDebateSimulation"
            /\ sentencepool' = Pool(NumAtoms)
            /\ sim' = <<debate>>
            /\ positions' = <<P>>
            /\ introduction_strategy' = strategies_
            /\ default_update_strategy' = strategy
            /\ argument_selection_strategy' = selection
            /\ uncovered_arguments' = << >>
            /\ log' = << >>
            /\ has_assertions' = TRUE
            /\ pc' = "idle"
            /\ UNCHANGED raised
    /\ UNCHANGED <<max_sentencepool, directed, i, max_steps, max_agreement, fetchVars>>
    /\ UNCHANGED <<seen_positions, c, new_argument, introduced>>
    /\ UNCHANGED eventVars
    /\ UNCHANGED engineVars

\* FixedDebateSimulation.run(max_steps=ms) is called, with a ceiling below
\* the number of Arguments the debate can have.
FixedDebateRun(ms) ==
    /\ kind = "FixedDebateSimulation"
    /\ pc = "idle"
    /\ pc' = "running"
    /\ max_steps' = ms
    /\ UNCHANGED <<max_agreement, fetchVars>>
    /\ UNCHANGED <<sim, positions, sentencepool, max_sentencepool, directed, log,
                   has_assertions, i, raised, kind, default_update_strategy>>
    /\ UNCHANGED eventVars
    /\ UNCHANGED fixedVars
    /\ UNCHANGED engineVars

\* Density above max_density, the test of line 483.
DensityGt(d, p, q) == ~DensityLeq(d, p, q)

\* Lines 480-483: the condition under which the loop of run is left before
\* a step; density() raises on a debate without a model.
FixedThreshold(uncovered, steps) ==
    IF Len(uncovered) > steps /\ satisfiability_count(Range(uncovered)) <= min_sccp
    THEN Return(TRUE)
    ELSE IF Len(uncovered) > 1
    THEN LET d == density(Range(uncovered))
         IN  IF d.raised # "none" THEN d
             ELSE Return(DensityGt(d.value, max_density_p, max_density_q))
    ELSE Return(FALSE)

\* Lines 490-491: what run returns when quiet.
Ended(uncovered) == [kind |-> "ended", steps |-> Len(uncovered)]

\* Lines 455-468: new_argument is uncovered and the positions respond to the
\* debate of the uncovered arguments; step returns True.
Uncover(arg) ==
    /\ new_argument' = arg
    /\ uncovered_arguments' = Append(uncovered_arguments, arg)
    /\ \E Q \in Responses(Range(uncovered_arguments) \cup {arg}, Last(positions)) :
          positions' = Append(positions, Q)
    /\ introduced' = "True"
    /\ pc' = "running"
    /\ UNCHANGED <<raised, ret>>

\* Lines 470-471 and 487-488: step returns False and run leaves its loop.
NothingUncovered ==
    /\ new_argument' = [kind |-> "False"]
    /\ introduced' = "False"
    /\ pc' = "returned"
    /\ ret' = [op |-> "run", raised |-> "none", value |-> Ended(uncovered_arguments)]
    /\ UNCHANGED <<uncovered_arguments, positions, raised>>

\* One round of the loop of run, lines 479-488, with the call of step, lines
\* 353-471.
FixedDebateIteration ==
    /\ kind = "FixedDebateSimulation"
    /\ pc = "running"
    /\ LET stop == FixedThreshold(uncovered_arguments, max_steps)
           last == Last(positions)
           remaining == sim[1] \ Range(uncovered_arguments)
       IN  IF stop.raised # "none"
           THEN /\ pc' = "raised"
                /\ raised' = stop.raised
                /\ ret' = [op |-> "run", raised |-> stop.raised]
                /\ UNCHANGED <<positions, log>>
                /\ UNCHANGED fixedVars
           ELSE IF stop.value
           THEN /\ pc' = "returned"
                /\ ret' = [op |-> "run", raised |-> "none",
                           value |-> Ended(uncovered_arguments)]
                /\ UNCHANGED <<positions, log, raised>>
                /\ UNCHANGED fixedVars
           ELSE IF Len(last) > 1
           THEN \E seen \in Tries(sim[1], uncovered_arguments, last, introduction_strategy) :
                  LET counts == Counts(sim[1], uncovered_arguments, last,
                                       introduction_strategy, Last(seen))
                  IN  /\ seen_positions' = seen
                      /\ c' = counts
                      /\ IF Available(counts)
                         THEN \E arg \in Selectable(argument_selection_strategy, counts) :
                                /\ log' = Append(
                                      NoArgumentLogs(log, SubSeq(seen, 1, Len(seen) - 1), 1,
                                                     last, introduction_strategy),
                                      [kind |-> "introduced", source_id |-> Last(seen),
                                       argument |-> arg, targets |-> counts[arg]])
                                /\ Uncover(arg)
                         ELSE /\ log' = NoArgumentLogs(log, seen, 1, last,
                                                       introduction_strategy)
                              /\ NothingUncovered
           ELSE /\ UNCHANGED <<seen_positions, c, log>>
                /\ IF remaining = {}
                   THEN /\ pc' = "raised"
                        /\ raised' = "IndexError"
                        /\ ret' = [op |-> "run", raised |-> "IndexError"]
                        /\ UNCHANGED <<uncovered_arguments, positions, new_argument,
                                       introduced>>
                   ELSE \E arg \in remaining : Uncover(arg)
    /\ UNCHANGED <<argument_selection_strategy, introduction_strategy>>
    /\ UNCHANGED <<sim, sentencepool, max_sentencepool, directed, has_assertions, i,
                   max_steps, max_agreement, fetchVars, kind, default_update_strategy>>
    /\ UNCHANGED eventVars
    /\ UNCHANGED <<formula, population>>

NextFixed ==
    \/ \E debate \in GeneratedMaps(Pool(NumAtoms)), P \in FixedPopulations,
          strategy_ \in IntroductionStrategies, selection \in SelectionInputs,
          strategy \in StrategyInputs :
             FixedDebateInit(debate, P, [j \in DOMAIN P |-> strategy_], selection, strategy)
    \/ \E ms \in 1..(MaxArguments - 1) : FixedDebateRun(ms)
    \/ FixedDebateIteration

SpecFixed == Init /\ [][NextFixed]_vars

\* The steps that can fail: runs of one step of Simulations of
\* NumAgents + 1 agents of one position, so that the directed loop has more
\* than one turn, and the runs of FixedDebateSimulations.
NextLog ==
    \/ \E directed_ \in BOOLEAN, k, m \in 1..NumAtoms :
          \E p \in [Range(Pool(k)) -> BOOLEAN] :
             SimulationInit(directed_, "random", k, m, EmptyDebate,
                            [j \in 1..(NumAgents + 1) |-> p], "closest_coherent")
    \/ Run(1)
    \/ IntroductionDirected
    \/ IntroductionUndirected
    \/ NewSentence
    \/ \E debate \in GeneratedMaps(Pool(NumAtoms)), P \in FixedPopulations,
          strategy_ \in IntroductionStrategies, selection \in {"any", "max"} :
             FixedDebateInit(debate, P, [j \in DOMAIN P |-> strategy_], selection,
                             "closest_coherent")
    \/ \E ms \in 1..(MaxArguments - 1) : FixedDebateRun(ms)
    \/ FixedDebateIteration

SpecLog == Init /\ [][NextLog]_vars

(***************************************************************************)
(* SimulationBase.init_positions, called on an object whose sentencepool   *)
(* is p0..p(k-1).                                                          *)
(***************************************************************************)
\* Lines 36-37: target_length None stands for the length of the pool.
TargetLength(given, n, pool) == IF given THEN n ELSE Len(pool)

\* Line 42, sample(self.sentencepool, k=target_length): the sentences drawn,
\* in their order.
Samples(pool, target_length) ==
    {order \in [1..target_length -> Range(pool)] :
        \A j, k \in 1..target_length : j # k => order[j] # order[k]}

\* Line 44 without its test of s not in p.
FillsUp_Overwrite(p, s, target_length) ==
    Cardinality(DOMAIN p) < target_length

\* Line 44: the sentence is given a value if the position has none for it
\* and is still shorter than target_length.
FillsUp(p, s, target_length) ==
    s \notin DOMAIN p /\ Cardinality(DOMAIN p) < target_length

\* Lines 43-47: the positions p can become along the sentences drawn.
RECURSIVE Fill(_, _, _)
Fill(p, order, target_length) ==
    IF order = << >> THEN {p}
    ELSE IF FillsUp(p, Head(order), target_length)
    THEN UNION {Fill(WithStance(p, Head(order), value), Tail(order), target_length) :
                value \in BOOLEAN}
    ELSE Fill(p, Tail(order), target_length)

\* Lines 39-47 for one position: sample raises ValueError when asked for
\* more sentences than the pool has.
Filled(pool, p, target_length) ==
    IF Cardinality(DOMAIN p) >= target_length THEN {Return(p)}
    ELSE IF target_length > Len(pool) THEN {Raise("ValueError")}
    ELSE {Return(e) : e \in UNION {Fill(p, order, target_length) :
                                     order \in Samples(pool, target_length)}}

\* init_positions(positions, target_length): the lists it can append, or the
\* exception of the first position that cannot be filled.
init_positions(pool, input, target_length) ==
    IF \E j \in DOMAIN input : Raise("ValueError") \in Filled(pool, input[j], target_length)
    THEN {Raise("ValueError")}
    ELSE {Return(Q) : Q \in {R \in [DOMAIN input -> PartialPositions] :
                \A j \in DOMAIN input : Return(R[j]) \in Filled(pool, input[j], target_length)}}

\* A call of init_positions.  population keeps the positions as they were
\* handed in; self.positions is reset at line 34, before anything can raise.
CallInitPositions(k, input, given, n) ==
    /\ pc = "none"
    /\ ret = None
    /\ population = << >>
    /\ sentencepool' = Pool(k)
    /\ population' = input
    /\ \E outcome \in init_positions(Pool(k), input, TargetLength(given, n, Pool(k))) :
          /\ ret' = [op |-> "init_positions", raised |-> outcome.raised,
                     target_length |-> TargetLength(given, n, Pool(k))]
          /\ positions' = IF outcome.raised = "none" THEN <<outcome.value>> ELSE << >>
    /\ UNCHANGED formula
    /\ UNCHANGED <<sim, max_sentencepool, directed, log, has_assertions, pc, i,
                   max_steps, max_agreement, fetchVars, raised, kind, default_update_strategy>>
    /\ UNCHANGED eventVars
    /\ UNCHANGED fixedVars

Next ==
    \/ \E directed_ \in BOOLEAN, debate_growth \in GrowthInputs,
          k, m \in 1..NumAtoms, strategy \in StrategyInputs :
          \E parent_debate \in {EmptyDebate} \cup ParentDebates(Pool(k)),
             n \in 0..NumAgents :
             \E P \in [1..n -> [Range(Pool(k)) -> BOOLEAN]] :
                SimulationInit(directed_, debate_growth, k, m, parent_debate,
                               P, strategy)
    \/ \E ms \in {0, MaxSteps} : Run(ms)
    \/ IntroductionDirected
    \/ IntroductionUndirected
    \/ NewSentence
    \/ \E debate \in GeneratedDebates(Pool(NumAtoms)), n \in 0..NumAgents :
          \E P \in [1..n -> [Sentences -> BOOLEAN]] :
             SocialInfluenceInit(debate, P)
    \/ SocialInfluenceStep

Spec == Init /\ [][Next]_vars

\* A SocialInfluenceSimulation and one call of its run; max_agreement is 0.4
\* or the default 0.9.
AgreementInputs == {4, 9}

NextInfluence ==
    \/ \E debate \in GeneratedDebates(Pool(NumAtoms)), n \in 0..NumAgents :
          \E P \in [1..n -> [Sentences -> BOOLEAN]] :
             SocialInfluenceInit(debate, P)
    \/ \E ms \in 0..(MaxSteps - 1), ma \in AgreementInputs : SocialInfluenceRun(ms, ma)
    \/ SocialInfluenceIteration

SpecInfluence == Init /\ [][NextInfluence]_vars

(***************************************************************************)
(* fetch_premises of taupy.basic.utilities.                                *)
(***************************************************************************)
MaxPool == 3
MaxLength == 3
MaxExclude == 2

\* math.comb(n, k): 0 for k > n.
RECURSIVE comb(_, _)
comb(n, k) ==
    IF k > n THEN 0
    ELSE IF k = 0 \/ k = n THEN 1
    ELSE comb(n - 1, k - 1) + comb(n - 1, k)

\* more_itertools.random_combination(pool, r): the members at r indices of
\* the pool, in the order of the pool.
random_combination(pool, r) ==
    {[x \in 1..r |-> pool[indices[x]]] :
        indices \in {f \in [1..r -> DOMAIN pool] :
                        \A x \in 1..(r - 1) : f[x] < f[x + 1]}}

\* Lines 219-222: the for loop runs to its else if no member of i has its
\* negation in i.
Consistent_FirstOnly(combination) ==
    combination = << >> \/ Not(combination[1]) \notin Range(combination)

Consistent(combination) ==
    \A x \in Range(combination) : Not(x) \notin Range(combination)

\* The pools: tuples of different literals.
FetchPools ==
    UNION {{pool \in [1..len -> Literals] :
              \A x, y \in 1..len : x # y => pool[x] # pool[y]} :
           len \in 0..MaxPool}

\* The lists to exclude: up to MaxExclude combinations of the pool.
ExcludeInputs(pool, n) ==
    {exclude \in SUBSET random_combination(pool, n) :
        Cardinality(exclude) <= MaxExclude}

\* Lines 207-213: n is length, or a member of it; j = 0 and
\* k = math.comb(len(pool), n).
CallFetchPremises(pool, n, exclude) ==
    /\ fetch_pc = "none"
    /\ fetch_pc' = "loop"
    /\ fetch_pool' = pool
    /\ fetch_n' = n
    /\ fetch_exclude' = exclude
    /\ fetch_j' = 0
    /\ fetch_k' = comb(Len(pool), n)
    /\ fetch_i' = << >>
    /\ UNCHANGED engineVars
    /\ UNCHANGED simVars

\* Lines 215-225, one round of while True.
FetchIteration ==
    /\ fetch_pc = "loop"
    /\ IF fetch_j < fetch_k
       THEN \E combination \in random_combination(fetch_pool, fetch_n) :
              /\ fetch_i' = combination
              /\ IF combination \notin fetch_exclude /\ Consistent(combination)
                 THEN /\ fetch_pc' = "returned"
                      /\ ret' = [op |-> "fetch_premises", raised |-> "none",
                                 value |-> [kind |-> "tuple", items |-> combination]]
                      /\ UNCHANGED fetch_j
                 ELSE /\ fetch_j' = fetch_j + 1
                      /\ UNCHANGED <<fetch_pc, ret>>
       ELSE /\ fetch_pc' = "returned"
            /\ ret' = [op |-> "fetch_premises", raised |-> "none",
                       value |-> [kind |-> "False"]]
            /\ UNCHANGED <<fetch_j, fetch_i>>
    /\ UNCHANGED <<fetch_pool, fetch_n, fetch_exclude, fetch_k>>
    /\ UNCHANGED <<formula, population>>
    /\ UNCHANGED simVars

NextFetch ==
    \/ \E pool \in FetchPools, n \in 0..MaxLength :
          \E exclude \in ExcludeInputs(pool, n) : CallFetchPremises(pool, n, exclude)
    \/ FetchIteration

SpecFetch == Init /\ [][NextFetch]_vars

\* init_positions on its own.
NextPositions ==
    \E k \in 1..NumAtoms, given \in BOOLEAN, n \in 0..NumAtoms :
        \E m \in 0..MaxPositions :
            \E input \in [1..m -> PartialPositions] :
                CallInitPositions(k, input, given, n)

SpecPositions == Init /\ [][NextPositions]_vars

(***************************************************************************)
(* Properties.                                                             *)
(***************************************************************************)
\* The satisfying total assignments of a Debate, by the truth tables of its
\* implications.
Models(D) == {m \in [atoms(D) -> BOOLEAN] : Satisfies(m, D)}

\* C1: the number satisfiability_count(D) returns is the length of the list
\* satisfiability(D, all_models=True) returns, and every item of that list
\* is a total assignment over exactly atoms(D) that satisfies D.
C1_CountIsLengthOfModelList ==
    /\ ret.op = "satisfiability_count" =>
          ret.value = Len(satisfiability_all(formula))
    /\ ret.op = "satisfiability_all" =>
          /\ Len(ret.value) = satisfiability_count(formula)
          /\ \A k \in DOMAIN ret.value :
                /\ DOMAIN ret.value[k] = atoms(formula)
                /\ Satisfies(ret.value[k], formula)

\* A Debate of two Arguments whose three models have been listed.
C1_Witness ==
    /\ ret.op = "satisfiability_all"
    /\ Cardinality(formula) = 2
    /\ Len(ret.value) = 3

\* C2, as claimed: for a satisfiable Debate of at least one Argument the
\* density lies in [0, 1), strictly below 1, and is 0 exactly when the model
\* count is 2^|atoms|.
C2_DensityBelowOne ==
    (ret.op = "density" /\ formula # {} /\ Models(formula) # {}) =>
        /\ ret.raised = "none"
        /\ DensityGeq(ret.value, 0, 1)
        /\ ~DensityGeq(ret.value, 1, 1)
        /\ (DensityLeq(ret.value, 0, 1)
                <=> Cardinality(Models(formula)) = Pow2(Cardinality(atoms(formula))))

\* C2, amended: for a satisfiable Debate of at least one Argument the density
\* lies in [0, 1]; it is 1 exactly when the Debate has one model and 0
\* exactly when the model count is 2^|atoms|.
C2_DensityInUnitInterval ==
    (ret.op = "density" /\ formula # {} /\ Models(formula) # {}) =>
        /\ ret.raised = "none"
        /\ DensityGeq(ret.value, 0, 1)
        /\ DensityLeq(ret.value, 1, 1)
        /\ (DensityGeq(ret.value, 1, 1) <=> Cardinality(Models(formula)) = 1)
        /\ (DensityLeq(ret.value, 0, 1)
                <=> Cardinality(Models(formula)) = Pow2(Cardinality(atoms(formula))))

\* The density of a Debate with exactly one model has been computed.
C2_Witness ==
    /\ ret.op = "density"
    /\ formula # {}
    /\ Cardinality(Models(formula)) = 1

\* C3: the adjacency mapping of Base.sccp and of graph_from_positions is
\* symmetric: a neighbour B listed under key A is itself a key and lists A.
C3_AdjacencySymmetric ==
    (ret.op \in {"sccp", "graph_from_positions"} /\ ret.raised = "none") =>
        \A A \in DOMAIN ret.value : \A k \in DOMAIN ret.value[A] :
            LET B == ret.value[A][k]
            IN  B \in DOMAIN ret.value /\ InList(A, ret.value[B])

\* A graph built from a population in which some position has a neighbour.
C3_Witness ==
    /\ ret.op = "graph_from_positions"
    /\ \E A \in DOMAIN ret.value : Len(ret.value[A]) > 0

\* The key of a model: its bits in the sorted order of the atoms.
KeyOf(m) ==
    LET props == sorted(DOMAIN m)
    IN  iter_to_string([k \in 1..Len(props) |-> IF m[props[k]] THEN 1 ELSE 0])

Hamming(m1, m2) == Cardinality({s \in DOMAIN m1 : m1[s] # m2[s]})

\* C4: in the SCCP of a satisfiable Debate of at least one Argument the keys
\* are the encodings of its models, one key per model; B is listed under A
\* iff the two models differ in exactly one coordinate; every listed
\* neighbour is a model; no key lists itself and no key lists more than
\* |atoms| neighbours.
C4_SccpIsHammingGraph ==
    (ret.op = "sccp" /\ formula # {} /\ Models(formula) # {}) =>
        /\ ret.raised = "none"
        /\ DOMAIN ret.value = {KeyOf(m) : m \in Models(formula)}
        /\ Cardinality(DOMAIN ret.value) = Cardinality(Models(formula))
        /\ \A m1, m2 \in Models(formula) :
              InList(KeyOf(m2), ret.value[KeyOf(m1)]) <=> Hamming(m1, m2) = 1
        /\ \A A \in DOMAIN ret.value :
              /\ \A k \in DOMAIN ret.value[A] : ret.value[A][k] \in DOMAIN ret.value
              /\ ~InList(A, ret.value[A])
              /\ Len(ret.value[A]) <= Cardinality(atoms(formula))

\* The SCCP of a Debate with three models, one of them with two neighbours.
C4_Witness ==
    /\ ret.op = "sccp"
    /\ Cardinality(Models(formula)) = 3
    /\ \E A \in DOMAIN ret.value : Len(ret.value[A]) = 2

\* C5: a Debate with no Arguments over the two sentences has model count 4
\* and density 0, and its SCCP is a 4-cycle: four keys with two neighbours
\* each.
C5_EmptyDebateIsUnconstrained ==
    (formula = {} /\ population = << >>) =>
        /\ ret.op = "satisfiability_count" => ret.value = 4
        /\ ret.op = "density" =>
              ret.raised = "none" /\ DensityLeq(ret.value, 0, 1)
        /\ ret.op = "sccp" =>
              /\ ret.raised = "none"
              /\ Cardinality(DOMAIN ret.value) = 4
              /\ \A A \in DOMAIN ret.value : Len(ret.value[A]) = 2

\* The Debate of the single Argument p0 -> p1.
AImpliesB ==
    {Argument(AndPremise({[s |-> 1, v |-> TRUE]}), [s |-> 2, v |-> TRUE])}

\* C6: for the Debate of the single Argument a -> b the models listed are
\* (F,F), (F,T) and (T,T), the model count is 3 and the density is
\* (2 - log2(3))/2, a number in [1/5, 4/19).
C6_SingleImplication ==
    formula = AImpliesB =>
        /\ ret.op = "satisfiability_all" =>
              /\ Len(ret.value) = 3
              /\ Range(ret.value) = {[s \in {1, 2} |-> FALSE],
                                     [s \in {1, 2} |-> s = 2],
                                     [s \in {1, 2} |-> TRUE]}
        /\ ret.op = "satisfiability_count" => ret.value = 3
        /\ ret.op = "density" =>
              /\ ret.raised = "none"
              /\ ret.value = [atoms |-> 2, sigma |-> 3]
              /\ DensityGeq(ret.value, 1, 5)
              /\ ~DensityGeq(ret.value, 4, 19)

\* The models of a -> b have been listed.
C6_Witness ==
    /\ formula = AImpliesB
    /\ ret.op = "satisfiability_all"

\* C8: satisfiability(f) returns True iff satisfiability_count(f) > 0; for a
\* contradictory formula it returns False and the list of models is empty,
\* and neither call raises.
C8_SatisfiableIffCountPositive ==
    /\ ret.op = "satisfiability" =>
          /\ ret.raised = "none"
          /\ ret.value = (satisfiability_count(formula) > 0)
    /\ (population = << >> /\ Models(formula) = {}) =>
          /\ ret.op = "satisfiability" => (ret.raised = "none" /\ ret.value = FALSE)
          /\ ret.op = "satisfiability_all" => (ret.raised = "none" /\ ret.value = << >>)

\* satisfiability has been called on a contradictory Debate.
C8_Witness ==
    /\ ret.op = "satisfiability"
    /\ Models(formula) = {}

\* C9: once a step of run has left the latest snapshot unsatisfiable, run has
\* returned with the summary as its last log entry and has raised nothing.
C9_UnsatisfiableEndsRunNormally ==
    (/\ pc \in {"running", "returned", "raised"}
     /\ i > 0
     /\ SnapshotCount(Last(sim), sentencepool) = 0) =>
        /\ pc = "returned"
        /\ raised = "none"
        /\ Len(log) > 0
        /\ Last(log).kind = "summary"

\* C10: no Argument object is produced from a premise given as a
\* two-element tuple.
C10_TuplePremiseRejected ==
    ret.op = "Argument" => ret.value.premise.shape # "tuple"

\* C11: no Simulation whose update strategy is a name the package does not
\* know reaches the loop of run: the constructor has rejected it.
C11_UnknownStrategyRejected ==
    (kind = "Simulation" /\ pc = "running") =>
        default_update_strategy \in UpdateStrategies

\* C12: in every state of a Simulation the number of Debate snapshots is
\* the number of Position sets.
C12_SnapshotsMatchPositionSets ==
    kind = "Simulation" => Len(sim) = Len(positions)

\* A Simulation after a new_sentence event and an introduction, each of
\* which appended a snapshot.
C12_Witness ==
    /\ kind = "Simulation"
    /\ Len(sim) = 3
    /\ selected_event = "introduction"
    /\ \E k \in DOMAIN log : log[k].kind = "sentence_added"

\* Every entry of the history before a step is the same entry after it.
HistoryKept ==
    /\ Len(sim') >= Len(sim)
    /\ \A k \in DOMAIN sim : sim'[k] = sim[k]
    /\ Len(positions') >= Len(positions)
    /\ \A k \in DOMAIN positions : positions'[k] = positions[k]

\* C13: the history is append-only: a step of Simulation.run or of
\* SocialInfluenceSimulation.step leaves every snapshot and every Position
\* set appended before it as it was.
C13_HistoryAppendOnly ==
    [][kind # "none" => HistoryKept]_vars

\* A Simulation whose positions took a stance on a new sentence, twice.
C13_Witness ==
    /\ kind = "Simulation"
    /\ Len(positions) = 3
    /\ positions[2] # positions[1]
    /\ positions[3] # positions[2]

\* The pool is kept as a prefix and grows by at most one sentence, in a
\* new_sentence event that is counted as a step, by a sentence of
\* max_sentencepool that the pool did not hold.
PoolGrowth ==
    kind = "Simulation" =>
        /\ Len(sentencepool') >= Len(sentencepool)
        /\ \A k \in DOMAIN sentencepool : sentencepool'[k] = sentencepool[k]
        /\ Len(sentencepool') <= Len(sentencepool) + 1
        /\ Len(sentencepool') = Len(sentencepool) + 1 =>
              /\ selected_event' = "new_sentence"
              /\ i' = i + 1
              /\ Last(sentencepool') \in Range(max_sentencepool) \ Range(sentencepool)

NoDuplicates == Cardinality(Range(sentencepool)) = Len(sentencepool)

\* C14, as claimed: the pool of a Simulation never loses a sentence, holds
\* no duplicate, grows by at most one sentence per step and only in a
\* new_sentence event by a sentence of max_sentencepool outside the pool, and
\* is never larger than max_sentencepool.
C14_PoolWithinMaximum ==
    /\ [](kind = "Simulation" =>
            NoDuplicates /\ Len(sentencepool) <= Len(max_sentencepool))
    /\ [][PoolGrowth]_vars

\* C14, amended: as claimed, except that the pool is no larger than
\* max_sentencepool only when max_sentencepool contains the pool the
\* Simulation was constructed with.
C14_PoolGrowsWithinMaximum ==
    /\ [](kind = "Simulation" =>
            /\ NoDuplicates
            /\ Range(sentencepool) \subseteq Range(max_sentencepool)
                  => Len(sentencepool) <= Len(max_sentencepool))
    /\ [][PoolGrowth]_vars

\* A Simulation whose pool has grown to the size of max_sentencepool.
C14_Witness ==
    /\ kind = "Simulation"
    /\ selected_event = "new_sentence"
    /\ Len(sentencepool) = 2
    /\ Len(sentencepool) = Len(max_sentencepool)
    /\ \E k \in DOMAIN log : log[k].kind = "sentence_added"

\* C15: a new_sentence event that finds a candidate adds exactly one new
\* sentence s to the pool, appends a snapshot equal to the previous one and
\* appends a Position set of the same size whose positions agree with the
\* old ones on every sentence but s, on which they are absent, True or False.
C15_NewSentenceFrame ==
    [][(/\ kind = "Simulation"
        /\ pc = "running"
        /\ selected_event' = "new_sentence"
        /\ Range(max_sentencepool) \ Range(sentencepool) # {}) =>
            LET s == Last(sentencepool')
            IN  /\ s \notin Range(sentencepool)
                /\ sentencepool' = Append(sentencepool, s)
                /\ sim' = Append(sim, Last(sim))
                /\ Len(positions') = Len(positions) + 1
                /\ Len(Last(positions')) = Len(Last(positions))
                /\ \A k \in DOMAIN Last(positions) :
                      LET old == Last(positions)[k]
                          new == Last(positions')[k]
                      IN  /\ DOMAIN new \ {s} = DOMAIN old
                          /\ \A x \in DOMAIN old : new[x] = old[x]
                          /\ s \in DOMAIN new => new[s] \in BOOLEAN]_vars

\* After a new_sentence event one position suspends judgement on the new
\* sentence and another takes a stance.
C15_Witness ==
    /\ kind = "Simulation"
    /\ selected_event = "new_sentence"
    /\ Len(positions) >= 2
    /\ \E k1, k2 \in DOMAIN Last(positions) :
          /\ Last(sentencepool) \notin DOMAIN Last(positions)[k1]
          /\ Last(sentencepool) \in DOMAIN Last(positions)[k2]
    /\ Last(sentencepool) \notin DOMAIN positions[1][1]

\* The condition of line 264 on the state after a step, written out.
ThresholdReached ==
    LET sigma == SnapshotCount(Last(sim'), sentencepool')
        d == SnapshotDensity(Last(sim'), sentencepool')
    IN  \/ sigma <= min_sccp
        \/ i' >= max_steps
        \/ d.raised = "none" /\ DensityGeq(d.value, max_density_p, max_density_q)

\* C16: a new_sentence event that finds the pool exhausted appends exactly
\* one log entry (the summary follows it when the run ends), leaves the
\* pool, the snapshots and the Position sets as they are, is counted as a
\* step, and ends the run only if a termination threshold holds.
C16_ExhaustedPoolIsLogged ==
    [][(/\ kind = "Simulation"
        /\ pc = "running"
        /\ selected_event' = "new_sentence"
        /\ Range(max_sentencepool) \ Range(sentencepool) = {}) =>
            /\ Len(log') > Len(log)
            /\ SubSeq(log', 1, Len(log)) = log
            /\ log'[Len(log) + 1].kind = "pool_exhausted"
            /\ \/ Len(log') = Len(log) + 1
               \/ Len(log') = Len(log) + 2 /\ Last(log').kind = "summary"
            /\ sentencepool' = sentencepool
            /\ sim' = sim
            /\ positions' = positions
            /\ i' = i + 1
            /\ pc' = "running" \/ ThresholdReached]_vars

\* The run goes on after a new_sentence event that found the pool exhausted.
C16_Witness ==
    /\ kind = "Simulation"
    /\ pc = "running"
    /\ selected_event = "new_sentence"
    /\ Len(log) > 0
    /\ Last(log).kind = "pool_exhausted"

\* C17: after every completed step the run leaves the loop if and only if
\* the density of the latest snapshot is >= max_density, or the step count is
\* >= max_steps, or the model count of the latest snapshot is <= min_sccp;
\* otherwise the run goes on to sample the next event.
C17_TerminationThresholds ==
    [][(kind = "Simulation" /\ pc = "running" /\ i' = i + 1) =>
            /\ pc' # "running" <=> ThresholdReached
            /\ pc' \in {"running", "returned", "raised"}]_vars

\* A step has been completed below every threshold and the run goes on.
C17_Witness ==
    /\ kind = "Simulation"
    /\ pc = "running"
    /\ i = 1
    /\ selected_event = "introduction"
    /\ argument_introduced

C19_UndirectedSingleAttempt ==
    [][(/\ kind = "Simulation"
        /\ pc = "running"
        /\ ~(directed /\ Len(Last(positions)) >= 2)
        /\ selected_event' = "introduction") =>
            /\ introduce_calls' = 1
            /\ pick_positions' = << >>
            /\ ~argument_introduced' =>
                  /\ pc' # "running"
                  /\ sim' = sim
                  /\ positions' = positions]_vars

\* An undirected introduction event has failed and the run has ended.
C19_Witness ==
    /\ kind = "Simulation"
    /\ ~directed
    /\ selected_event = "introduction"
    /\ ~argument_introduced
    /\ introduce_calls = 1
    /\ pc = "returned"

\* C20: in an iteration of run response is called once if an Argument was
\* introduced, with the new snapshot and the new Position set in place when
\* the iteration ends, and not at all after a failed introduction or in a
\* new_sentence event.
C20_ResponseOncePerIntroduction ==
    [][(kind = "Simulation" /\ pc = "running") =>
            /\ response_calls' =
                  IF selected_event' = "introduction" /\ argument_introduced'
                  THEN 1 ELSE 0
            /\ response_calls' = 1 =>
                  /\ Len(sim') = Len(sim) + 1
                  /\ Len(positions') = Len(positions) + 1
            /\ (selected_event' = "introduction" /\ ~argument_introduced') =>
                  positions' = positions]_vars

\* response has been called after an introduction and the run goes on.
C20_Witness ==
    /\ kind = "Simulation"
    /\ pc = "running"
    /\ selected_event = "introduction"
    /\ response_calls = 1
    /\ Len(positions) = 2

\* C21: whenever Simulation.run has returned, after a threshold or after a
\* failed introduction, the last log entry is the summary line with the
\* steps taken, the density of the latest snapshot and its model count, and
\* with quiet=True that entry is what run returned.
C21_SummaryIsLastEntry ==
    (kind = "Simulation" /\ pc = "returned") =>
        /\ Len(log) > 0
        /\ Last(log) = [kind |-> "summary", steps |-> i,
                        density |-> SnapshotDensity(Last(sim), sentencepool).value,
                        sccp |-> SnapshotCount(Last(sim), sentencepool)]
        /\ ret.op = "run"
        /\ ret.value[TRUE] = Last(log)

\* A quiet run that took a step and then ended on a failed introduction.
C21_Witness ==
    /\ kind = "Simulation"
    /\ pc = "returned"
    /\ selected_event = "introduction"
    /\ ~argument_introduced
    /\ i > 0
    /\ has_assertions
    /\ ret.op = "run"
    /\ ret.value[TRUE].kind = "summary"
    /\ ret.value[FALSE] = Self

\* C26: every assignment satisfiable_neighbours yields is at Hamming distance
\* 1 from the position, on the sentences the position assigns.
C26_YieldsOnlyNeighbours ==
    (ret.op = "satisfiable_neighbours" /\ formula # {}) =>
        \A k \in DOMAIN ret.value :
            Cardinality({s \in DOMAIN ret.position :
                            ret.value[k][s] # ret.position[s]}) = 1

C25_PositionsFilledToTarget ==
    (ret.op = "init_positions" /\ ret.target_length <= Len(sentencepool)) =>
        /\ ret.raised = "none"
        /\ Len(positions) = 1
        /\ DOMAIN positions[1] = DOMAIN population
        /\ \A j \in DOMAIN population :
              LET before == population[j]
                  after == positions[1][j]
              IN  IF Cardinality(DOMAIN before) < ret.target_length
                  THEN /\ Cardinality(DOMAIN after) = ret.target_length
                       /\ \A s \in DOMAIN before : s \in DOMAIN after /\ after[s] = before[s]
                       /\ DOMAIN after \ DOMAIN before \subseteq Range(sentencepool)
                  ELSE after = before

\* A list with a position that is filled up around a value it had and a
\* position that is long enough already.
C25_Witness ==
    /\ ret.op = "init_positions"
    /\ ret.target_length <= Len(sentencepool)
    /\ Len(population) = 2
    /\ \E j, k \in DOMAIN population :
          /\ Cardinality(DOMAIN population[j]) = 1
          /\ Cardinality(DOMAIN positions[1][j]) = 2
          /\ Cardinality(DOMAIN population[k]) >= ret.target_length
          /\ population[k] # << >>

\* The entries of a log that note a failure.
FailureEntries(entries) ==
    Cardinality({k \in DOMAIN entries :
        entries[k].kind \in {"introduce_failed", "introduction_failed",
                             "no_argument_available", "pool_exhausted"}})

\* The entries a step has appended.
Appended == SubSeq(log', Len(log) + 1, Len(log'))

StepPositions ==
    IF introduced = "True" THEN positions[Len(positions) - 1] ELSE Last(positions)
StepUncovered ==
    IF introduced = "True"
    THEN SubSeq(uncovered_arguments, 1, Len(uncovered_arguments) - 1)
    ELSE uncovered_arguments

\* C23: in a step with more than one agent the dict c holds, for every
\* argument not yet uncovered, the size of the intersection of its three
\* index sets; the argument chosen has at least one possible target, and
\* under 'max' as many as any argument has.
C23_ChosenArgumentHasTargets ==
    (kind = "FixedDebateSimulation" /\ introduced = "True" /\ Len(StepPositions) > 1) =>
        LET source_id == Last(seen_positions)
            targets(arg) ==
                premise_ids(introduction_strategy[source_id], arg, StepPositions,
                            StepPositions[source_id])
                  \cap conclusion_source_ids(introduction_strategy[source_id], arg,
                                             StepPositions, source_id)
                  \cap conclusion_target_ids(introduction_strategy[source_id], arg,
                                             StepPositions, source_id)
        IN  /\ DOMAIN c = sim[1] \ Range(StepUncovered)
            /\ \A arg \in DOMAIN c : c[arg] > 0 <=> targets(arg) # {}
            /\ new_argument \in DOMAIN c
            /\ targets(new_argument) # {}
            /\ c[new_argument] >= 1
            /\ argument_selection_strategy = "max" =>
                  \A arg \in DOMAIN c : Cardinality(targets(arg)) <= c[new_argument]

\* Under 'max', an argument with two possible targets is chosen over one
\* with a single possible target.
C23_Witness ==
    /\ kind = "FixedDebateSimulation"
    /\ introduced = "True"
    /\ Len(StepPositions) > 1
    /\ argument_selection_strategy = "max"
    /\ c[new_argument] = 2
    /\ \E arg \in DOMAIN c : c[arg] = 1

\* C24: a step of a FixedDebateSimulation in which nothing can be uncovered
\* raises nothing, whatever the size of the population: no run ends with an
\* exception.
C24_ExhaustionNeverRaises ==
    kind = "FixedDebateSimulation" => pc # "raised"

\* C28: a run of a FixedDebateSimulation uncovers no more than max_steps
\* arguments.
C28_MaxStepsIsCeiling ==
    (kind = "FixedDebateSimulation" /\ pc \in {"running", "returned", "raised"}) =>
        Len(uncovered_arguments) <= max_steps

\* C30: in a step with more than one agent no agent is source twice; a step
\* that returns False has tried every agent and none had an argument
\* available; a step that returns True has stopped at the first source that
\* had one.
C30_EachSourceTriedOnce ==
    (kind = "FixedDebateSimulation" /\ introduced \in {"True", "False"}
        /\ Len(StepPositions) > 1) =>
        LET has_argument(j) ==
                Available(Counts(sim[1], StepUncovered, StepPositions,
                                 introduction_strategy, j))
        IN  /\ \A j, k \in DOMAIN seen_positions :
                  j # k => seen_positions[j] # seen_positions[k]
            /\ introduced = "False" =>
                  /\ Range(seen_positions) = DOMAIN StepPositions
                  /\ \A j \in DOMAIN StepPositions : ~has_argument(j)
            /\ introduced = "True" =>
                  /\ has_argument(Last(seen_positions))
                  /\ \A k \in 1..(Len(seen_positions) - 1) :
                        ~has_argument(seen_positions[k])

\* A step of three agents in which the first source had no argument, the
\* second had one and the third was not tried.
C30_Witness ==
    /\ kind = "FixedDebateSimulation"
    /\ introduced = "True"
    /\ Len(StepPositions) = 3
    /\ Len(seen_positions) = 2

\* C29: a run of a SocialInfluenceSimulation calls step at most max_steps
\* times.
C29_AtMostMaxSteps ==
    (kind = "SocialInfluenceSimulation" /\ pc \in {"running", "returned"}) =>
        i <= max_steps

\* A run stops before a step when the mean agreement exceeds max_agreement.
C29_StopsOnAgreement ==
    [][(kind = "SocialInfluenceSimulation" /\ pc = "running"
            /\ ~mean_agreement(Last(positions)).nan
            /\ ~AgreementLeq(mean_agreement(Last(positions)), max_agreement)) =>
        (pc' = "returned" /\ i' = i /\ positions' = positions)]_vars

\* Every strategy record the fields admit.
StrategyRecords ==
    {Strategy("any", premises, source, target) :
        premises \in {"source", "target", "None"},
        source \in {"Yes", "Toleration", "NA"},
        target \in {"No", "NA"}}

\* C35: whatever the strategy, the source is not among the possible targets
\* of an argument, and the targets logged for an introduced argument are as
\* many as the other agents among its possible targets.
C35_SourceIsNoTarget ==
    (kind = "FixedDebateSimulation" /\ pc \in {"running", "returned"}
        /\ Len(StepPositions) > 1) =>
        /\ \A strategy \in StrategyRecords, arg \in sim[1],
              source_id \in DOMAIN StepPositions :
              source_id \notin possible_targets(strategy, arg, StepPositions, source_id)
        /\ introduced = "True" =>
              LET source_id == Last(seen_positions)
                  targets == possible_targets(introduction_strategy[source_id],
                                              new_argument, StepPositions, source_id)
              IN  /\ Last(log).kind = "introduced"
                  /\ Last(log).source_id = source_id
                  /\ Last(log).targets = Cardinality(targets \ {source_id})
                  /\ Last(log).targets < Len(StepPositions)

\* An argument was introduced whose source meets the premise and conclusion
\* requirements itself, and every other agent is a possible target.
C35_Witness ==
    /\ kind = "FixedDebateSimulation"
    /\ introduced = "True"
    /\ Len(StepPositions) = 3
    /\ Holds(premise_reqs(new_argument), StepPositions[Last(seen_positions)])
    /\ Last(log).kind = "introduced"
    /\ Last(log).targets = 2

\* C34: the uncovered arguments of a FixedDebateSimulation built without
\* initial_arguments are arguments of its debate, each at most once; a step
\* leaves the list as it is or appends one argument to it, a step that
\* returns True appends exactly one; and every round of run either ends the
\* run or uncovers one more argument, so that a run has come to its end
\* after as many successful steps as the debate has arguments.
C34_UncoveredOnlyGrows ==
    [][kind' = "FixedDebateSimulation" =>
          /\ Range(uncovered_arguments') \subseteq sim'[1]
          /\ \A j, k \in DOMAIN uncovered_arguments' :
                j # k => uncovered_arguments'[j] # uncovered_arguments'[k]
          /\ Len(uncovered_arguments') <= Cardinality(sim'[1])
          /\ \/ uncovered_arguments' = uncovered_arguments
             \/ /\ Len(uncovered_arguments') = Len(uncovered_arguments) + 1
                /\ SubSeq(uncovered_arguments', 1, Len(uncovered_arguments))
                      = uncovered_arguments
          /\ pc = "running" =>
                \/ pc' \in {"returned", "raised"}
                \/ /\ pc' = "running"
                   /\ introduced' = "True"
                   /\ Len(uncovered_arguments') = Len(uncovered_arguments) + 1]_vars

\* A run that has uncovered every argument of a debate of two arguments.
C34_Witness ==
    /\ kind = "FixedDebateSimulation"
    /\ pc \in {"running", "returned", "raised"}
    /\ Cardinality(sim[1]) = 2
    /\ Len(uncovered_arguments) = 2
    /\ Len(Last(positions)) > 1

\* C32: when run of a Simulation has returned, the attribute assertions is
\* gone from the object.
C32_AssertionsDeleted ==
    (kind = "Simulation" /\ pc = "returned") => ~has_assertions

\* max(1, max_steps)
MostIterations(ms) == IF ms > 1 THEN ms ELSE 1

\* C33: a run of a Simulation comes to its end: every round of the loop ends
\* the run or counts one more step, and the steps counted never exceed
\* max(1, max_steps); a run that has returned has gone through a round and
\* reports the steps counted; the round in which no argument could be
\* introduced is not counted.
C33_RunTerminates ==
    [][(kind = "Simulation" /\ pc = "running") =>
          /\ i' <= MostIterations(max_steps)
          /\ \/ pc' \in {"returned", "raised"}
             \/ pc' = "running" /\ i' = i + 1 /\ i' < MostIterations(max_steps)
          /\ selected_event' \in {"introduction", "new_sentence"}
          /\ pc' = "returned" =>
                /\ Last(log').kind = "summary"
                /\ Last(log').steps = i'
                /\ Last(log').steps <= MostIterations(max_steps)
          /\ (selected_event' = "introduction" /\ ~argument_introduced') =>
                (pc' \in {"returned", "raised"} /\ i' = i)
          /\ (selected_event' = "new_sentence" \/ argument_introduced') =>
                i' = i + 1]_vars

\* A run with max_steps = MaxSteps went through MaxSteps rounds and ended at
\* the threshold of the steps.
C33_Witness ==
    /\ kind = "Simulation"
    /\ pc = "returned"
    /\ max_steps = MaxSteps
    /\ i = MaxSteps
    /\ ~has_assertions
    /\ Last(log).kind = "summary"
    /\ Last(log).steps = MaxSteps

\* C31: every round of the loop of fetch_premises returns or counts one more
\* of at most k = C(|pool|, n) draws; a combination it returns has n members
\* of the pool, is not in exclude and holds no sentence together with its
\* negation; when j has reached k it returns False.
C31_FetchPremisesTerminates ==
    [][fetch_pc = "loop" =>
          /\ fetch_k = comb(Len(fetch_pool), fetch_n)
          /\ fetch_j <= fetch_k
          /\ fetch_pc' = "loop" =>
                (fetch_j < fetch_k /\ fetch_j' = fetch_j + 1)
          /\ fetch_pc' = "returned" =>
                IF ret'.value.kind = "tuple"
                THEN /\ fetch_j < fetch_k
                     /\ Len(ret'.value.items) = fetch_n
                     /\ Range(ret'.value.items) \subseteq Range(fetch_pool)
                     /\ ret'.value.items \notin fetch_exclude
                     /\ \A x, y \in Range(ret'.value.items) :
                           x.s = y.s => x.v = y.v
                ELSE /\ ret'.value.kind = "False"
                     /\ fetch_j = fetch_k]_vars

\* A combination of three was drawn that holds a sentence and its negation
\* after the sentence, and was not returned.
C31_Witness ==
    /\ fetch_pc = "loop"
    /\ fetch_n = 3
    /\ fetch_j = 1
    /\ Len(fetch_i) = 3
    /\ fetch_i \notin fetch_exclude
    /\ Not(fetch_i[2]) = fetch_i[3]

====
